---- MODULE Spec2Model ----
(***************************************************************************)
(* Model of the VentoExpert polling core in                                *)
(* custom_components/ventoexpertv2/sensor.py: the request builder and its  *)
(* checksum, the UDP transport (_send_udp), the retry loop (udp_request),  *)
(* the response parser and the coordinator's update cycle.                 *)
(*                                                                         *)
(* Byte strings are sequences of naturals in 0..255.  Text strings are     *)
(* sequences of code points.  A decoded mapping (a Python dict) is a       *)
(* function from parameter ids to values.                                  *)
(***************************************************************************)
EXTENDS Integers, Sequences, FiniteSets, TLC

(***************************************************************************)
(* Bounds of the model.                                                    *)
(***************************************************************************)
\* length of the fixed prefix put in front of every modelled response frame
HeaderLen == 17
\* longest variable part that follows the prefix in a response frame
MaxTail == 4
\* longest device id drawn for the request builder
MaxIdLen == 17
\* longest password drawn for the request builder
MaxPwdLen == 5
\* longest parameter list enumerated for the request builder
MaxParams == 2
\* length of the list of two-byte ids that makes the checksum wrap
MaxWrapParams == 86

(***************************************************************************)
(* Program constants.                                                      *)
(***************************************************************************)
DefaultRetries == 3
MinResponseLen == 20
FUNC_RESPONSE == 6
PARAM_FILTER_TIMER == 100
PARAM_FAN1 == 74
PARAM_FAN2 == 75
ID_FIELD_LEN == 16
PWD_FIELD_LEN == 4

ALL_PARAMS == <<1, 2, 6, 25, 37, 74, 75, 183>>

\* "DEFAULT_DEVICEID" and "1111" as code points
DEFAULT_DEVICEID == <<68, 69, 70, 65, 85, 76, 84, 95, 68, 69, 86, 73, 67, 69, 73, 68>>
DEFAULT_PASSWORD == <<49, 49, 49, 49>>

(***************************************************************************)
(* Helpers on byte strings.                                                *)
(***************************************************************************)
RECURSIVE SumRange(_, _, _)
\* the sum of s[lo..hi], by halves to keep the evaluation shallow
SumRange(s, lo, hi) ==
    IF lo > hi THEN 0
    ELSE IF lo = hi THEN s[lo]
    ELSE LET mid == (lo + hi) \div 2
         IN  SumRange(s, lo, mid) + SumRange(s, mid + 1, hi)

\* Python sum(packet)
SumBytes(s) == SumRange(s, 1, Len(s))

\* bytes.ljust(width, b"\x00"): pads on the right, never shortens
ljust(s, width) ==
    IF Len(s) >= width THEN s
    ELSE s \o [i \in 1..(width - Len(s)) |-> 0]

\* str.encode("ascii") succeeds exactly on code points below 128 and is then
\* the byte string of the code points; otherwise it raises UnicodeEncodeError
encode_raises(str) == \E i \in 1..Len(str) : str[i] > 127

encode_ascii(str) == [i \in 1..Len(str) |-> str[i] % 256]

(***************************************************************************)
(* calc_checksum and build_read_packet.                                    *)
(***************************************************************************)
calc_checksum_bigendian(packet) ==
    LET checksum == SumBytes(packet) % 65536
    IN  <<(checksum \div 256) % 256, checksum % 256>>

calc_checksum(packet) ==
    LET checksum == SumBytes(packet) % 65536
    IN  <<checksum % 256, (checksum \div 256) % 256>>

param_bytes_no_escape(param) ==
    LET high == (param \div 256) % 256
        low == param % 256
    IN  (IF high > 0 THEN <<high>> ELSE <<>>) \o <<low>>

\* the body of the loop of build_read_packet: the bytes added for one param
param_bytes(param) ==
    LET high == (param \div 256) % 256
        low == param % 256
    IN  (IF high > 0 THEN <<255, high>> ELSE <<>>) \o <<low>>

RECURSIVE data_block_range(_, _, _)
\* the bytes the loop adds for ps[lo..hi], in order (by halves to keep the
\* evaluation shallow)
data_block_range(ps, lo, hi) ==
    IF lo > hi THEN <<>>
    ELSE IF lo = hi THEN param_bytes(ps[lo])
    ELSE LET mid == (lo + hi) \div 2
         IN  data_block_range(ps, lo, mid) \o data_block_range(ps, mid + 1, hi)

\* data_block after the loop over params
data_block(ps) == data_block_range(ps, 1, Len(ps))

build_raises(dev, pwd) == encode_raises(dev) \/ encode_raises(pwd)

build_read_packet(dev, pwd, ps) ==
    LET start == <<253, 253>>
        type_byte == <<2>>
        size_id == <<16>>
        id_bytes == ljust(encode_ascii(dev), ID_FIELD_LEN)
        size_pwd == <<4>>
        pwd_bytes == ljust(encode_ascii(pwd), PWD_FIELD_LEN)
        func == <<1>>
        body == type_byte \o size_id \o id_bytes \o size_pwd \o pwd_bytes
                \o func \o data_block(ps)
    IN  start \o body \o calc_checksum(body)

(***************************************************************************)
(* parse_ventoexpert_response.                                             *)
(***************************************************************************)
EmptyMap == [x \in {} |-> 0]

\* result[param] = value
DictSet(result, param, value) ==
    [x \in (DOMAIN result) \cup {param} |->
        IF x = param THEN value ELSE result[x]]

\* data.index(0x06): the 0-based index of the first marker byte
HasFunc(data) == \E i \in 1..Len(data) : data[i] = FUNC_RESPONSE

func_index(data) ==
    (CHOOSE i \in 1..Len(data) :
        /\ data[i] = FUNC_RESPONSE
        /\ \A j \in 1..(i - 1) : data[j] # FUNC_RESPONSE) - 1

RECURSIVE parse_loop(_, _, _)
\* the while loop; pos is the 0-based read position, data[pos] is data[pos + 1]
parse_loop(data, pos, result) ==
    IF ~(pos < Len(data) - 2) THEN result
    ELSE LET param == data[pos + 1]
             p == pos + 1
         IN  IF param = PARAM_FILTER_TIMER
             THEN IF p + 3 > Len(data) THEN result
                  ELSE parse_loop(data, p + 3,
                         DictSet(result, param,
                                 <<data[p + 1], data[p + 2], data[p + 3]>>))
             ELSE IF param \in {PARAM_FAN1, PARAM_FAN2}
             THEN IF p + 2 > Len(data) THEN result
                  ELSE parse_loop(data, p + 2,
                         DictSet(result, param,
                                 data[p + 1] + 256 * data[p + 2]))
             ELSE IF p >= Len(data) THEN result
                  ELSE parse_loop(data, p + 1,
                                  DictSet(result, param, data[p + 1]))

parse_ventoexpert_response(data) ==
    IF data = <<>> \/ Len(data) < MinResponseLen THEN EmptyMap
    ELSE IF ~HasFunc(data) THEN EmptyMap
    ELSE parse_loop(data, func_index(data) + 1, EmptyMap)

(***************************************************************************)
(* The environment: what the device can answer.  A response frame is a     *)
(* fixed prefix followed by a short tail over the bytes that drive the     *)
(* parser: the function marker, a one-byte id, a two-byte id and the       *)
(* three-byte id.  A tail shorter than 3 gives a frame below the minimum   *)
(* length; the empty datagram is a possible answer too.                    *)
(***************************************************************************)
TailBytes == {1, FUNC_RESPONSE, PARAM_FAN1, PARAM_FILTER_TIMER}

Header == [i \in 1..HeaderLen |-> IF i <= 2 THEN 253 ELSE 0]

Tails == UNION {[1..n -> TailBytes] : n \in 0..MaxTail}

Responses == {<<>>} \cup {Header \o t : t \in Tails}

\* coordinator.data before the first successful refresh (Python None); no
\* decoded mapping has the key -1
None == [x \in {-1} |-> -1]

\* a device id that str.encode("ascii") rejects ("Lüfter")
NonAsciiId == <<76, 252, 102, 116, 101, 114>>

VARIABLES
    pc,               \* position of the update cycle
    device_id,        \* VentoExpertCoordinator.device_id
    password,         \* VentoExpertCoordinator.password
    params,           \* VentoExpertCoordinator.params
    retries,          \* udp_request's retries argument
    packet,           \* the request frame built for this cycle
    attempt,          \* udp_request's loop variable
    attempts,         \* number of _send_udp calls made by this udp_request
    sleeps,           \* number of asyncio.sleep(0.5) calls of this udp_request
    sock,             \* the socket object of the running _send_udp (0: none)
    open_socks,       \* sockets created and not yet closed
    send_ret,         \* what the last _send_udp returned (udp_request's data)
    send_raised,      \* the last _send_udp call left by an exception
    udp_ret,          \* what udp_request returned (_async_update_data's data)
    outcome,          \* how the last _async_update_data ended
    coordinator_data, \* coordinator.data, the published snapshot
    hit_attempt,      \* first attempt of this cycle that received bytes (0: none)
    hit_bytes,        \* the bytes received by that attempt
    last_parsed,      \* decode returned by the most recent returning cycle
    prev_data,        \* coordinator.data when the running cycle started
    data,             \* parse_ventoexpert_response's argument
    pos,              \* the parser's read position (0-based)
    result,           \* the parser's result dict
    max_used,         \* highest 0-based index read as id or value (-1: none)
    broke,            \* the parser's loop was left by a break
    fields,           \* the (id, value bytes) pairs a built frame encodes
    constructed       \* data is a frame built from fields

vars == <<pc, device_id, password, params, retries, packet, attempt, attempts,
          sleeps, sock, open_socks, send_ret, send_raised, udp_ret, outcome,
          coordinator_data, hit_attempt, hit_bytes, last_parsed, prev_data,
          data, pos, result, max_used, broke, fields, constructed>>

\* the variables of a running parse_ventoexpert_response call
parser == <<data, pos, result, max_used, broke>>

\* what is known of the frame being parsed
frame_input == <<fields, constructed>>

config == <<device_id, password, params, retries>>

InitCycle ==
    /\ pc = "idle"
    /\ packet = <<>>
    /\ attempt = 0
    /\ attempts = 0
    /\ sleeps = 0
    /\ sock = 0
    /\ open_socks = {}
    /\ send_ret = <<>>
    /\ send_raised = FALSE
    /\ udp_ret = <<>>
    /\ outcome = "none"
    /\ coordinator_data = None
    /\ hit_attempt = 0
    /\ hit_bytes = <<>>
    /\ last_parsed = None
    /\ prev_data = None
    /\ pos = 0
    /\ result = EmptyMap
    /\ max_used = -1
    /\ broke = FALSE

\* async_setup_entry: the configured device id (default DEFAULT_DEVICEID, or
\* whatever text the user entered), password "1111", ALL_PARAMS; the
\* coordinator calls udp_request without retries, so the default applies
Init ==
    /\ device_id \in {DEFAULT_DEVICEID, NonAsciiId}
    /\ password = DEFAULT_PASSWORD
    /\ params = ALL_PARAMS
    /\ retries = DefaultRetries
    /\ data = <<>>
    /\ fields = <<>>
    /\ constructed = FALSE
    /\ InitCycle

(***************************************************************************)
(* VentoExpertCoordinator._async_update_data, entered on a refresh.        *)
(***************************************************************************)
\* line 141 raises (UnicodeEncodeError): control goes to the except clause
UpdateBuildRaises ==
    /\ pc = "idle"
    /\ build_raises(device_id, password)
    /\ pc' = "raised"
    /\ packet' = <<>>
    /\ attempt' = 0
    /\ attempts' = 0
    /\ sleeps' = 0
    /\ send_ret' = <<>>
    /\ send_raised' = FALSE
    /\ udp_ret' = <<>>
    /\ hit_attempt' = 0
    /\ hit_bytes' = <<>>
    /\ prev_data' = coordinator_data
    /\ UNCHANGED <<config, parser, frame_input,
                   sock, open_socks, outcome, coordinator_data,
                   last_parsed>>

\* lines 141-142: build the packet and enter udp_request
UpdateStart ==
    /\ pc = "idle"
    /\ ~build_raises(device_id, password)
    /\ packet' = build_read_packet(device_id, password, params)
    /\ pc' = "loop"
    /\ attempt' = 0
    /\ attempts' = 0
    /\ sleeps' = 0
    /\ send_ret' = <<>>
    /\ send_raised' = FALSE
    /\ udp_ret' = <<>>
    /\ hit_attempt' = 0
    /\ hit_bytes' = <<>>
    /\ prev_data' = coordinator_data
    /\ UNCHANGED <<config, parser, frame_input,
                   sock, open_socks, outcome, coordinator_data,
                   last_parsed>>

(***************************************************************************)
(* udp_request.                                                            *)
(***************************************************************************)
UdpAttempt_one_more ==
    /\ pc = "loop"
    /\ attempt <= retries
    /\ attempts' = attempts + 1
    /\ pc' = "socket"
    /\ UNCHANGED <<config, parser, frame_input,
                   packet, attempt, sleeps, sock, open_socks, send_ret,
                   send_raised, udp_ret, outcome, coordinator_data,
                   hit_attempt, hit_bytes, last_parsed, prev_data>>

\* line 55-56: another iteration of range(retries) calls _send_udp
UdpAttempt ==
    /\ pc = "loop"
    /\ attempt < retries
    /\ attempts' = attempts + 1
    /\ pc' = "socket"
    /\ UNCHANGED <<config, parser, frame_input,
                   packet, attempt, sleeps, sock, open_socks, send_ret,
                   send_raised, udp_ret, outcome, coordinator_data,
                   hit_attempt, hit_bytes, last_parsed, prev_data>>

\* lines 63-64: range(retries) is used up
UdpExhausted ==
    /\ pc = "loop"
    /\ ~(attempt < retries)
    /\ udp_ret' = <<>>
    /\ pc' = "returned"
    /\ UNCHANGED <<config, parser, frame_input,
                   packet, attempt, attempts, sleeps, sock, open_socks,
                   send_ret, send_raised, outcome, coordinator_data,
                   hit_attempt, hit_bytes, last_parsed, prev_data>>

UdpReturnData_sleeps ==
    /\ pc = "sent"
    /\ send_ret # <<>>
    /\ sleeps' = sleeps + 1
    /\ udp_ret' = send_ret
    /\ pc' = "returned"
    /\ UNCHANGED <<config, parser, frame_input,
                   packet, attempt, attempts, sock, open_socks,
                   send_ret, send_raised, outcome, coordinator_data,
                   hit_attempt, hit_bytes, last_parsed, prev_data>>

\* lines 57-59: data is truthy, return it
UdpReturnData ==
    /\ pc = "sent"
    /\ send_ret # <<>>
    /\ udp_ret' = send_ret
    /\ pc' = "returned"
    /\ UNCHANGED <<config, parser, frame_input,
                   packet, attempt, attempts, sleeps, sock, open_socks,
                   send_ret, send_raised, outcome, coordinator_data,
                   hit_attempt, hit_bytes, last_parsed, prev_data>>

\* lines 60-62: no data, sleep 0.5 s and go to the next iteration
UdpBackoff ==
    /\ pc = "sent"
    /\ send_ret = <<>>
    /\ sleeps' = sleeps + 1
    /\ attempt' = attempt + 1
    /\ pc' = "loop"
    /\ UNCHANGED <<config, parser, frame_input,
                   packet, attempts, sock, open_socks, send_ret,
                   send_raised, udp_ret, outcome, coordinator_data,
                   hit_attempt, hit_bytes, last_parsed, prev_data>>

(***************************************************************************)
(* _send_udp, one step per socket call.  A socket object is named by the   *)
(* ordinal of the _send_udp call that created it.                          *)
(***************************************************************************)
\* the finally clause: sock.close()
sock_close_leak(socks, s) == socks

sock_close(socks, s) == socks \ {s}

\* lines 68-69: socket.socket() succeeds
SendUdpSocket ==
    /\ pc = "socket"
    /\ sock' = attempts
    /\ open_socks' = open_socks \cup {attempts}
    /\ pc' = "sendto"
    /\ UNCHANGED <<config, parser, frame_input,
                   packet, attempt, attempts, sleeps, send_ret,
                   send_raised, udp_ret, outcome, coordinator_data,
                   hit_attempt, hit_bytes, last_parsed, prev_data>>

\* line 68: socket.socket() raises OSError (no descriptor left); the call is
\* outside the try block, so the exception leaves _send_udp, passes through
\* udp_request (no handler at line 56) and reaches the coordinator's except
SendUdpSocketError ==
    /\ pc = "socket"
    /\ send_raised' = TRUE
    /\ pc' = "raised"
    /\ UNCHANGED <<config, parser, frame_input,
                   packet, attempt, attempts, sleeps, sock, open_socks,
                   send_ret, udp_ret, outcome, coordinator_data,
                   hit_attempt, hit_bytes, last_parsed, prev_data>>

\* line 71: sendto succeeds
SendUdpSendto ==
    /\ pc = "sendto"
    /\ pc' = "recvfrom"
    /\ UNCHANGED <<config, parser, frame_input,
                   packet, attempt, attempts, sleeps, sock, open_socks,
                   send_ret, send_raised, udp_ret, outcome, coordinator_data,
                   hit_attempt, hit_bytes, last_parsed, prev_data>>

\* line 71 raises (unreachable network, name resolution): lines 77-81
SendUdpSendtoError ==
    /\ pc = "sendto"
    /\ send_ret' = <<>>
    /\ open_socks' = sock_close(open_socks, sock)
    /\ sock' = 0
    /\ pc' = "sent"
    /\ UNCHANGED <<config, parser, frame_input,
                   packet, attempt, attempts, sleeps, send_raised,
                   udp_ret, outcome, coordinator_data, hit_attempt, hit_bytes,
                   last_parsed, prev_data>>

\* lines 72-73 and 80-81: a datagram arrives and is returned
SendUdpRecvfrom ==
    /\ pc = "recvfrom"
    /\ \E d \in Responses :
        /\ send_ret' = d
        /\ IF d # <<>> /\ hit_attempt = 0
           THEN hit_attempt' = attempts /\ hit_bytes' = d
           ELSE UNCHANGED <<hit_attempt, hit_bytes>>
    /\ open_socks' = sock_close(open_socks, sock)
    /\ sock' = 0
    /\ pc' = "sent"
    /\ UNCHANGED <<config, parser, frame_input,
                   packet, attempt, attempts, sleeps, send_raised,
                   udp_ret, outcome, coordinator_data, last_parsed, prev_data>>

\* lines 74-76 and 80-81: recvfrom times out after 2 s
SendUdpTimeout ==
    /\ pc = "recvfrom"
    /\ send_ret' = <<>>
    /\ open_socks' = sock_close(open_socks, sock)
    /\ sock' = 0
    /\ pc' = "sent"
    /\ UNCHANGED <<config, parser, frame_input,
                   packet, attempt, attempts, sleeps, send_raised,
                   udp_ret, outcome, coordinator_data, hit_attempt, hit_bytes,
                   last_parsed, prev_data>>

\* lines 77-81: recvfrom raises another error (ICMP port unreachable)
SendUdpRecvError ==
    /\ pc = "recvfrom"
    /\ send_ret' = <<>>
    /\ open_socks' = sock_close(open_socks, sock)
    /\ sock' = 0
    /\ pc' = "sent"
    /\ UNCHANGED <<config, parser, frame_input,
                   packet, attempt, attempts, sleeps, send_raised,
                   udp_ret, outcome, coordinator_data, hit_attempt, hit_bytes,
                   last_parsed, prev_data>>

(***************************************************************************)
(* The end of _async_update_data.  What the method returns becomes         *)
(* coordinator.data; when it raises UpdateFailed nothing is returned and   *)
(* coordinator.data keeps its value.                                       *)
(***************************************************************************)
publish_merge(old, new) ==
    [x \in (DOMAIN old) \cup (DOMAIN new) |->
        IF x \in DOMAIN new THEN new[x] ELSE old[x]]

\* line 146: return parsed
publish(old, new) == new

UpdateNoResponse_publishes ==
    /\ pc = "returned"
    /\ udp_ret = <<>>
    /\ outcome' = "returned"
    /\ coordinator_data' = EmptyMap
    /\ pc' = "idle"
    /\ UNCHANGED <<config, parser, frame_input,
                   packet, attempt, attempts, sleeps, sock, open_socks,
                   send_ret, send_raised, udp_ret, hit_attempt, hit_bytes,
                   last_parsed, prev_data>>

\* lines 143-144, 147-148: no data, UpdateFailed
UpdateNoResponse ==
    /\ pc = "returned"
    /\ udp_ret = <<>>
    /\ outcome' = "UpdateFailed"
    /\ pc' = "idle"
    /\ UNCHANGED <<config, parser, frame_input,
                   packet, attempt, attempts, sleeps, sock, open_socks,
                   send_ret, send_raised, udp_ret, coordinator_data,
                   hit_attempt, hit_bytes, last_parsed, prev_data>>

\* lines 145-146: parse and return whatever the parser produced
UpdateReturn ==
    /\ pc = "returned"
    /\ udp_ret # <<>>
    /\ LET parsed == parse_ventoexpert_response(udp_ret)
       IN  /\ coordinator_data' = publish(coordinator_data, parsed)
           /\ last_parsed' = parsed
    /\ outcome' = "returned"
    /\ pc' = "idle"
    /\ UNCHANGED <<config, parser, frame_input,
                   packet, attempt, attempts, sleeps, sock, open_socks,
                   send_ret, send_raised, udp_ret, hit_attempt, hit_bytes,
                   prev_data>>

UpdateExcept_reraises ==
    /\ pc = "raised"
    /\ outcome' = IF send_raised THEN "OSError" ELSE "UnicodeEncodeError"
    /\ pc' = "idle"
    /\ UNCHANGED <<config, parser, frame_input,
                   packet, attempt, attempts, sleeps, sock, open_socks,
                   send_ret, send_raised, udp_ret, coordinator_data,
                   hit_attempt, hit_bytes, last_parsed, prev_data>>

\* lines 147-148: any exception of the try block becomes UpdateFailed
UpdateExcept ==
    /\ pc = "raised"
    /\ outcome' = "UpdateFailed"
    /\ pc' = "idle"
    /\ UNCHANGED <<config, parser, frame_input,
                   packet, attempt, attempts, sleeps, sock, open_socks,
                   send_ret, send_raised, udp_ret, coordinator_data,
                   hit_attempt, hit_bytes, last_parsed, prev_data>>

Next ==
    \/ UpdateBuildRaises
    \/ UpdateStart
    \/ UdpAttempt
    \/ UdpExhausted
    \/ UdpReturnData
    \/ UdpBackoff
    \/ SendUdpSocket
    \/ SendUdpSocketError
    \/ SendUdpSendto
    \/ SendUdpSendtoError
    \/ SendUdpRecvfrom
    \/ SendUdpTimeout
    \/ SendUdpRecvError
    \/ UpdateNoResponse
    \/ UpdateReturn
    \/ UpdateExcept

Spec == Init /\ [][Next]_vars

(***************************************************************************)
(* build_read_packet on its own: the inputs are drawn from bounded sets    *)
(* and the function is applied once.                                       *)
(***************************************************************************)
\* an ASCII text of n capital letters
Letters(n) == [i \in 1..n |-> 65 + (i % 26)]

\* an ASCII text of n digits
Digits(n) == [i \in 1..n |-> 48 + (i % 10)]

DeviceIds ==
    {Letters(n) : n \in 0..MaxIdLen} \cup {DEFAULT_DEVICEID, NonAsciiId}

Passwords == {Digits(n) : n \in 0..MaxPwdLen} \cup {DEFAULT_PASSWORD}

\* one-byte ids, two-byte ids and the largest id
ParamIds == {1, 183, 256, 770, 65535}

\* enough two-byte ids for the byte sum to pass 65535
WrapParams == [i \in 1..MaxWrapParams |-> 65535]

ParamLists ==
    UNION {[1..n -> ParamIds] : n \in 0..MaxParams}
        \cup {ALL_PARAMS, WrapParams}

InitBuild ==
    /\ device_id \in DeviceIds
    /\ password \in Passwords
    /\ params \in ParamLists
    /\ retries = DefaultRetries
    /\ data = <<>>
    /\ fields = <<>>
    /\ constructed = FALSE
    /\ InitCycle

\* build_read_packet returns the frame
BuildReadPacket ==
    /\ pc = "idle"
    /\ ~build_raises(device_id, password)
    /\ packet' = build_read_packet(device_id, password, params)
    /\ pc' = "built"
    /\ UNCHANGED <<config, parser, frame_input,
                   attempt, attempts, sleeps, sock, open_socks,
                   send_ret, send_raised, udp_ret, outcome, coordinator_data,
                   hit_attempt, hit_bytes, last_parsed, prev_data>>

\* build_read_packet raises UnicodeEncodeError at line 38 or 40
BuildReadPacketRaises ==
    /\ pc = "idle"
    /\ build_raises(device_id, password)
    /\ pc' = "build_raised"
    /\ UNCHANGED <<config, parser, frame_input,
                   packet, attempt, attempts, sleeps, sock, open_socks,
                   send_ret, send_raised, udp_ret, outcome, coordinator_data,
                   hit_attempt, hit_bytes, last_parsed, prev_data>>

NextBuild == BuildReadPacket \/ BuildReadPacketRaises

SpecBuild == InitBuild /\ [][NextBuild]_vars

(***************************************************************************)
(* Properties.                                                             *)
(***************************************************************************)
\* the cycle that last ran is over
CycleDone == pc = "idle" /\ outcome # "none"

\* C1: a poll cycle in which udp_request returns no data ends as
\* UpdateFailed and leaves coordinator.data exactly as it was.
NoDataCycleFailsAndKeepsSnapshot ==
    [][(pc = "returned" /\ udp_ret = <<>>) =>
         /\ pc' = "idle"
         /\ outcome' = "UpdateFailed"
         /\ coordinator_data' = coordinator_data
         /\ coordinator_data' = prev_data]_vars

\* C1 witness: all retries were used up without data, the cycle failed and
\* the snapshot of an earlier successful cycle is still there
NoDataCycleWitness ==
    /\ CycleDone
    /\ outcome = "UpdateFailed"
    /\ ~send_raised
    /\ attempts = retries
    /\ udp_ret = <<>>
    /\ coordinator_data \notin {None, EmptyMap}
    /\ coordinator_data = prev_data

\* C2: no cycle publishes an empty mapping as the new snapshot; a response
\* that decodes to the empty mapping makes the cycle fail.
EmptyDecodeIsNeverPublished ==
    (CycleDone /\ udp_ret # <<>>
        /\ parse_ventoexpert_response(udp_ret) = EmptyMap)
    => (outcome = "UpdateFailed" /\ coordinator_data # EmptyMap)

\* C3: when every attempt returned no data, udp_request has made exactly
\* retries attempts and exactly retries - 1 backoff delays when it returns.
ExhaustedAttemptsAndBackoffs ==
    (pc = "returned" /\ udp_ret = <<>>)
    => (attempts = retries /\ sleeps = retries - 1)

\* C4: when attempt k is the first to receive bytes, exactly k attempts and
\* k - 1 backoff delays are made, nothing follows attempt k, and udp_request
\* returns exactly the bytes of attempt k.
FirstDataReturnsImmediately ==
    hit_attempt # 0 =>
        /\ hit_attempt \in 1..retries
        /\ attempts = hit_attempt
        /\ sleeps = hit_attempt - 1
        /\ pc \in {"sent", "returned", "idle"}
        /\ pc \in {"returned", "idle"} => udp_ret = hit_bytes

\* C4 witness: the second attempt was the first with data and udp_request
\* has returned
SecondAttemptHitWitness ==
    /\ pc = "returned"
    /\ hit_attempt = 2
    /\ udp_ret # <<>>
    /\ udp_ret = hit_bytes

\* C6: after a returning cycle the snapshot is exactly the mapping decoded
\* from that cycle's response, and at any time it is the decode of the most
\* recent returning cycle.
SnapshotIsLastDecode ==
    /\ coordinator_data = last_parsed
    /\ (CycleDone /\ outcome = "returned")
        => coordinator_data = parse_ventoexpert_response(udp_ret)

\* C6 witness: a returning cycle replaced a snapshot that held a parameter
\* the new decode does not hold
SnapshotReplacedWitness ==
    /\ CycleDone
    /\ outcome = "returned"
    /\ prev_data # None
    /\ coordinator_data # EmptyMap
    /\ \E k \in DOMAIN prev_data : k \notin DOMAIN coordinator_data

FieldWidth(id) ==
    IF id = PARAM_FILTER_TIMER THEN 3
    ELSE IF id \in {PARAM_FAN1, PARAM_FAN2} THEN 2
    ELSE 1

RECURSIVE FieldStarts(_, _)
\* the 1-based positions where a field starts when the frame is read field
\* by field from position i, up to the first field that does not fit
FieldStarts(d, i) ==
    IF i > Len(d) \/ i + FieldWidth(d[i]) > Len(d) THEN {i}
    ELSE {i} \cup FieldStarts(d, i + 1 + FieldWidth(d[i]))

\* the frame has the marker, it is not a run of whole fields followed by the
\* two trailer bytes, and its last field lacks value bytes
TruncatedMidField(d) ==
    /\ Len(d) >= MinResponseLen
    /\ HasFunc(d)
    /\ LET starts == FieldStarts(d, func_index(d) + 2)
       IN  /\ (Len(d) - 1) \notin starts
           /\ \E i \in starts : i <= Len(d) /\ i + FieldWidth(d[i]) > Len(d)

\* C7: a response truncated in the middle of a field never makes a partial
\* mapping visible: the cycle fails, or at least nothing decoded from the
\* frame is published.
TruncatedFrameLeavesNoPartialSnapshot ==
    (CycleDone /\ TruncatedMidField(udp_ret))
    => (outcome = "UpdateFailed" \/ coordinator_data = EmptyMap)

\* C8: _send_udp never raises past its boundary.
SendUdpNeverRaises == send_raised = FALSE

\* C9: a socket lives within one _send_udp call: none is open outside a
\* call, at most the one created by the running call is open inside it.
SocketPerCall ==
    /\ Cardinality(open_socks) <= 1
    /\ pc \in {"sendto", "recvfrom"} => (open_socks = {sock} /\ sock = attempts)
    /\ pc \notin {"sendto", "recvfrom"} => (open_socks = {} /\ sock = 0)

\* C9 witness: the second transport attempt of a cycle ended on an error
\* path and no socket is open
SocketClosedWitness ==
    /\ pc = "sent"
    /\ attempts = 2
    /\ send_ret = <<>>
    /\ open_socks = {}

\* the width of one entry of the parameter block, from the parameter id
EntryLen(id) == IF id % 65536 > 255 THEN 3 ELSE 1

RECURSIVE BlockLenRange(_, _, _)
BlockLenRange(ps, lo, hi) ==
    IF lo > hi THEN 0
    ELSE IF lo = hi THEN EntryLen(ps[lo])
    ELSE LET mid == (lo + hi) \div 2
         IN  BlockLenRange(ps, lo, mid) + BlockLenRange(ps, mid + 1, hi)

\* the length of the parameter block, from the parameter ids
BlockLen(ps) == BlockLenRange(ps, 1, Len(ps))

\* C10: for a device id of at most 16 ASCII bytes, a password of at most 4
\* and a non-empty parameter list, the frame has length
\* 2+1+1+16+1+4+1+len(param-block)+2 and its last two bytes, little-endian,
\* are the sum of the bytes from the type byte to the end of the parameter
\* block modulo 65536.
FrameLengthAndChecksum ==
    (pc = "built" /\ Len(device_id) <= 16 /\ Len(password) <= 4
        /\ params # <<>>)
    => LET n == Len(packet)
       IN  /\ n = 2 + 1 + 1 + 16 + 1 + 4 + 1 + BlockLen(params) + 2
           /\ packet[n - 1] + 256 * packet[n]
                = SumBytes(SubSeq(packet, 3, n - 2)) % 65536

\* C10 witness: a frame was built from a 16-byte id and a 4-byte password
\* whose byte sum does not fit in 16 bits
ChecksumWrapsWitness ==
    /\ pc = "built"
    /\ Len(device_id) = 16
    /\ Len(password) = 4
    /\ params = WrapParams
    /\ SumBytes(SubSeq(packet, 3, Len(packet) - 2)) > 65535

\* the entry the wire format asks for one 16-bit parameter id
EntryBytes(id) ==
    IF id \div 256 = 0 THEN <<id>>
    ELSE <<255, id \div 256, id % 256>>

\* the bytes of the frame between the function byte and the checksum
ParamBlockOf(frame, ps) ==
    SubSeq(frame, Len(frame) - 2 - BlockLen(ps) + 1, Len(frame) - 2)

\* C11: the parameter block is the in-order concatenation, one entry per
\* requested id, of the low byte alone when the high byte is zero and of
\* 0xFF, high byte, low byte otherwise.
ParamBlockEncoding ==
    pc = "built" =>
        LET block == ParamBlockOf(packet, params)
        IN  /\ Len(packet) >= 28 + BlockLen(params)
            /\ packet[Len(packet) - 2 - BlockLen(params)] = 1
            /\ \A i \in 1..Len(params) :
                LET off == BlockLenRange(params, 1, i - 1)
                IN  SubSeq(block, off + 1, off + EntryLen(params[i]))
                        = EntryBytes(params[i])

\* C11 witness: a frame was built for a one-byte id followed by a two-byte id
MixedParamsWitness ==
    /\ pc = "built"
    /\ params = <<1, 770>>
    /\ ParamBlockOf(packet, params) = <<1, 255, 3, 2>>

\* a text cut to width bytes, or padded with zero bytes up to width
FixedField(str, width) ==
    [i \in 1..width |-> IF i <= Len(str) THEN str[i] ELSE 0]

\* C15: whatever the length of the device id and of the password, the
\* device-id field is exactly 16 bytes and the password field exactly 4
\* (longer inputs cut), and the frame has length
\* 2+1+1+16+1+4+1+len(param-block)+2.
OverlongInputsKeepFieldWidths ==
    pc = "built" =>
        /\ Len(packet) = 2 + 1 + 1 + 16 + 1 + 4 + 1 + BlockLen(params) + 2
        /\ SubSeq(packet, 5, 20) = FixedField(device_id, 16)
        /\ packet[21] = 4
        /\ SubSeq(packet, 22, 25) = FixedField(password, 4)
        /\ packet[26] = 1

(***************************************************************************)
(* parse_ventoexpert_response on its own, one step per loop iteration.     *)
(* The argument is drawn from two families: raw byte strings (with and     *)
(* without the prefix, so both below and above the minimum length), and    *)
(* frames built from a list of (id, value bytes) pairs: prefix, marker,    *)
(* the encoded pairs, two trailer bytes.                                   *)
(***************************************************************************)
\* longest raw tail drawn for the parser
MaxParseTail == 6
\* longest list of pairs a built frame encodes
MaxFields == 3

ParseBytes == {1, 44, FUNC_RESPONSE, PARAM_FAN1, PARAM_FILTER_TIMER}

RawTails == UNION {[1..n -> ParseBytes] : n \in 0..MaxParseTail}

RawFrames == RawTails \cup {Header \o t : t \in RawTails}

\* pairs of every width, with repeated ids and with values that look like
\* the marker
FieldChoices ==
    { <<1, <<1>>>>, <<1, <<6>>>>, <<6, <<44>>>>, <<183, <<255>>>>,
      <<PARAM_FAN1, <<44, 1>>>>, <<PARAM_FAN1, <<1, 0>>>>,
      <<PARAM_FAN2, <<1, 44>>>>,
      <<PARAM_FILTER_TIMER, <<1, 2, 3>>>>,
      <<PARAM_FILTER_TIMER, <<3, 2, 1>>>> }

FieldLists == UNION {[1..n -> FieldChoices] : n \in 0..MaxFields}

\* trailer bytes, one pair of them looking like an id and the marker
Trailers == { <<0, 0>>, <<PARAM_FILTER_TIMER, FUNC_RESPONSE>> }

RECURSIVE EncodeFields(_)
EncodeFields(fs) ==
    IF fs = <<>> THEN <<>>
    ELSE <<Head(fs)[1]>> \o Head(fs)[2] \o EncodeFields(Tail(fs))

BuiltFrame(fs, tr) == Header \o <<FUNC_RESPONSE>> \o EncodeFields(fs) \o tr

InitParse ==
    /\ \/ /\ constructed = FALSE
          /\ fields = <<>>
          /\ data \in RawFrames
       \/ /\ constructed = TRUE
          /\ fields \in FieldLists
          /\ \E tr \in Trailers : data = BuiltFrame(fields, tr)
    /\ device_id = DEFAULT_DEVICEID
    /\ password = DEFAULT_PASSWORD
    /\ params = ALL_PARAMS
    /\ retries = DefaultRetries
    /\ InitCycle

cycle_vars == <<packet, attempt, attempts, sleeps, sock, open_socks, send_ret,
                send_raised, udp_ret, outcome, coordinator_data, hit_attempt,
                hit_bytes, last_parsed, prev_data>>

Max(a, b) == IF a >= b THEN a ELSE b

too_short_only_empty(d) == d = <<>>

\* line 85: not data or len(data) < 20
too_short(d) == d = <<>> \/ Len(d) < MinResponseLen

le16_bigendian(lo, hi) == hi + 256 * lo

\* line 109: data[pos] | (data[pos + 1] << 8)
le16(lo, hi) == lo + 256 * hi

dict_set_keep_first(d, param, value) ==
    IF param \in DOMAIN d THEN d ELSE DictSet(d, param, value)

\* lines 104, 110, 116: result[param] = value
dict_set(d, param, value) == DictSet(d, param, value)

\* lines 85-89: the input is empty or too short, return {}
ParseTooShort ==
    /\ pc = "idle"
    /\ too_short(data)
    /\ result' = EmptyMap
    /\ pc' = "parsed"
    /\ UNCHANGED <<config, frame_input, cycle_vars, data, pos, max_used,
                   broke>>

\* lines 90-94: data.index(0x06) raises ValueError, return {}
ParseNoFunc ==
    /\ pc = "idle"
    /\ ~too_short(data)
    /\ ~HasFunc(data)
    /\ result' = EmptyMap
    /\ pc' = "parsed"
    /\ UNCHANGED <<config, frame_input, cycle_vars, data, pos, max_used,
                   broke>>

\* lines 91, 95-96: the marker is found, the loop starts behind it
ParseFindFunc ==
    /\ pc = "idle"
    /\ ~too_short(data)
    /\ HasFunc(data)
    /\ pos' = func_index(data) + 1
    /\ result' = EmptyMap
    /\ pc' = "parse_loop"
    /\ UNCHANGED <<config, frame_input, cycle_vars, data, max_used, broke>>

\* lines 97, 118: the loop condition fails, return result
ParseLoopExit ==
    /\ pc = "parse_loop"
    /\ ~(pos < Len(data) - 2)
    /\ pc' = "parsed"
    /\ UNCHANGED <<config, frame_input, cycle_vars, parser>>

\* lines 98-105: an iteration on the 3-byte parameter
ParseFilterTimer ==
    /\ pc = "parse_loop"
    /\ pos < Len(data) - 2
    /\ data[pos + 1] = PARAM_FILTER_TIMER
    /\ LET param == data[pos + 1]
           p == pos + 1
       IN  IF p + 3 > Len(data)
           THEN /\ pos' = p
                /\ broke' = TRUE
                /\ max_used' = Max(max_used, pos)
                /\ pc' = "parsed"
                /\ UNCHANGED result
           ELSE /\ result' = dict_set(result, param,
                                <<data[p + 1], data[p + 2], data[p + 3]>>)
                /\ pos' = p + 3
                /\ max_used' = Max(max_used, p + 2)
                /\ UNCHANGED <<pc, broke>>
    /\ UNCHANGED <<config, frame_input, cycle_vars, data>>

\* lines 98-99, 106-111: an iteration on a 2-byte parameter
ParseFan ==
    /\ pc = "parse_loop"
    /\ pos < Len(data) - 2
    /\ data[pos + 1] \in {PARAM_FAN1, PARAM_FAN2}
    /\ LET param == data[pos + 1]
           p == pos + 1
       IN  IF p + 2 > Len(data)
           THEN /\ pos' = p
                /\ broke' = TRUE
                /\ max_used' = Max(max_used, pos)
                /\ pc' = "parsed"
                /\ UNCHANGED result
           ELSE /\ result' = dict_set(result, param,
                                      le16(data[p + 1], data[p + 2]))
                /\ pos' = p + 2
                /\ max_used' = Max(max_used, p + 1)
                /\ UNCHANGED <<pc, broke>>
    /\ UNCHANGED <<config, frame_input, cycle_vars, data>>

ParseOneByte_no_advance ==
    /\ pc = "parse_loop"
    /\ pos < Len(data) - 2
    /\ data[pos + 1] \notin {PARAM_FILTER_TIMER, PARAM_FAN1, PARAM_FAN2}
    /\ LET param == data[pos + 1]
           p == pos + 1
       IN  /\ result' = dict_set(result, param, data[p + 1])
           /\ pos' = p
           /\ max_used' = Max(max_used, p)
           /\ UNCHANGED <<pc, broke>>
    /\ UNCHANGED <<config, frame_input, cycle_vars, data>>

\* lines 98-99, 112-117: an iteration on a 1-byte parameter
ParseOneByte ==
    /\ pc = "parse_loop"
    /\ pos < Len(data) - 2
    /\ data[pos + 1] \notin {PARAM_FILTER_TIMER, PARAM_FAN1, PARAM_FAN2}
    /\ LET param == data[pos + 1]
           p == pos + 1
       IN  IF p >= Len(data)
           THEN /\ pos' = p
                /\ broke' = TRUE
                /\ max_used' = Max(max_used, pos)
                /\ pc' = "parsed"
                /\ UNCHANGED result
           ELSE /\ result' = dict_set(result, param, data[p + 1])
                /\ pos' = p + 1
                /\ max_used' = Max(max_used, p)
                /\ UNCHANGED <<pc, broke>>
    /\ UNCHANGED <<config, frame_input, cycle_vars, data>>

NextParse ==
    \/ ParseTooShort
    \/ ParseNoFunc
    \/ ParseFindFunc
    \/ ParseLoopExit
    \/ ParseFilterTimer
    \/ ParseFan
    \/ ParseOneByte

SpecParse == InitParse /\ [][NextParse]_vars

\* the stepwise parser and the parser as one function give the same mapping
ParseStepsAgree ==
    pc = "parsed" => result = parse_ventoexpert_response(data)

\* C12: for an input that is empty, shorter than 20 bytes or without any
\* 0x06 byte the parser returns the empty mapping without entering its loop
\* and without raising.
ParseFailsSoft ==
    (\/ data = <<>>
     \/ Len(data) < 20
     \/ \A i \in 1..Len(data) : data[i] # 6)
    => /\ pc \in {"idle", "parsed"}
       /\ pc = "parsed" => (result = EmptyMap /\ max_used = -1 /\ ~broke)

\* C12 witness: a frame below 20 bytes that holds the marker and bytes
\* behind it was parsed
ShortFrameWithMarkerWitness ==
    /\ pc = "parsed"
    /\ data = <<6, 1, 1, 1, 1>>
    /\ result = EmptyMap

\* the value the wire format gives a pair: 3 bytes as a tuple, 2 bytes
\* little-endian, 1 byte as the byte
ExpectedValue(f) ==
    IF f[1] = 100 THEN <<f[2][1], f[2][2], f[2][3]>>
    ELSE IF f[1] \in {74, 75} THEN f[2][1] + 256 * f[2][2]
    ELSE f[2][1]

\* the position of the last pair of fs with this id
LastIndex(fs, id) ==
    CHOOSE i \in 1..Len(fs) :
        /\ fs[i][1] = id
        /\ \A j \in (i + 1)..Len(fs) : fs[j][1] # id

ExpectedMap(fs) ==
    [id \in {fs[i][1] : i \in 1..Len(fs)} |->
        ExpectedValue(fs[LastIndex(fs, id)])]

\* C13: from a frame of at least 20 bytes made of the marker, pairs encoded
\* by the width rule and two trailer bytes, the parser recovers exactly the
\* mapping of the pairs.
ParseRecoversBuiltFrame ==
    (pc = "parsed" /\ constructed) => result = ExpectedMap(fields)

\* C13 witness: a frame with a 2-byte, a 3-byte and a 1-byte pair was
\* parsed; bytes 2C 01 gave 300 and 01 02 03 gave the tuple
AllWidthsWitness ==
    /\ pc = "parsed"
    /\ constructed
    /\ fields = << <<74, <<44, 1>>>>, <<100, <<1, 2, 3>>>>, <<1, <<6>>>> >>
    /\ result[74] = 300
    /\ result[100] = <<1, 2, 3>>
    /\ result[1] = 6

\* C14: when an id occurs more than once in a frame, the mapping holds the
\* value of its last occurrence.
DuplicateIdKeepsLast ==
    (pc = "parsed" /\ constructed) =>
        \A i \in 1..Len(fields) : \A j \in (i + 1)..Len(fields) :
            (/\ fields[i][1] = fields[j][1]
             /\ \A k \in (j + 1)..Len(fields) : fields[k][1] # fields[j][1])
            => /\ fields[j][1] \in DOMAIN result
               /\ result[fields[j][1]] = ExpectedValue(fields[j])

\* C14 witness: id 1 came twice, with values 1 and then 6
DuplicateIdWitness ==
    /\ pc = "parsed"
    /\ constructed
    /\ fields = << <<1, <<1>>>>, <<1, <<6>>>> >>
    /\ result[1] = 6

\* C16: no byte the parser reads as a parameter id or as part of a value
\* lies in the final 2 bytes of the input.
ParserNeverReadsTrailer ==
    max_used >= 0 => max_used < Len(data) - 2

\* C19: every iteration of the parsing loop either ends the loop or moves the
\* read position forward by at least 2, and the position never passes
\* len(data).
ParserLoopAdvances ==
    [][pc = "parse_loop" =>
         /\ pc' = "parsed" \/ pos' >= pos + 2
         /\ pos' <= Len(data)
         /\ pos <= Len(data)]_vars

\* C19 witness: the loop decoded a pair and was then left by a break
LoopBrokeWitness ==
    /\ pc = "parsed"
    /\ broke
    /\ result # EmptyMap
    /\ pos <= Len(data)

(***************************************************************************)
(* udp_request on its own: a caller passes any retry count and the loop    *)
(* and the transport run as above.  The event loop resumes the coroutine   *)
(* after each await and every socket call returns within its timeout, so   *)
(* a step that can be taken is taken.                                      *)
(***************************************************************************)
\* largest retry count drawn
MaxRetries == 4

InitUdp ==
    /\ device_id = DEFAULT_DEVICEID
    /\ password = DEFAULT_PASSWORD
    /\ params = ALL_PARAMS
    /\ retries \in 0..MaxRetries
    /\ data = <<>>
    /\ fields = <<>>
    /\ constructed = FALSE
    /\ InitCycle

\* line 54: udp_request is called
UdpCall ==
    /\ pc = "idle"
    /\ pc' = "loop"
    /\ attempt' = 0
    /\ attempts' = 0
    /\ sleeps' = 0
    /\ send_ret' = <<>>
    /\ send_raised' = FALSE
    /\ udp_ret' = <<>>
    /\ hit_attempt' = 0
    /\ hit_bytes' = <<>>
    /\ UNCHANGED <<config, parser, frame_input, packet, sock, open_socks,
                   outcome, coordinator_data, last_parsed, prev_data>>

\* lines 59, 64: the call is over, by a return or by the exception of
\* _send_udp passing through line 56
UdpCallEnds ==
    /\ pc \in {"returned", "raised"}
    /\ pc' = "idle"
    /\ UNCHANGED <<config, parser, frame_input, cycle_vars>>

NextUdp ==
    \/ UdpCall
    \/ UdpAttempt
    \/ UdpExhausted
    \/ UdpReturnData
    \/ UdpBackoff
    \/ SendUdpSocket
    \/ SendUdpSocketError
    \/ SendUdpSendto
    \/ SendUdpSendtoError
    \/ SendUdpRecvfrom
    \/ SendUdpTimeout
    \/ SendUdpRecvError
    \/ UdpCallEnds

SpecUdp == InitUdp /\ [][NextUdp]_vars /\ WF_vars(NextUdp)

\* C17: _async_update_data ends by returning or by UpdateFailed, nothing
\* else: a cycle in which the request builder or the transport raised, or
\* no data came, ends as UpdateFailed.
OnlyUpdateFailedLeaves ==
    /\ outcome \in {"none", "returned", "UpdateFailed"}
    /\ (CycleDone /\ (send_raised \/ build_raises(device_id, password)
                        \/ udp_ret = <<>>))
        => outcome = "UpdateFailed"

\* C17 witness: socket.socket() raised in the second attempt of a cycle and
\* the cycle ended as UpdateFailed
SocketErrorConvertedWitness ==
    /\ CycleDone
    /\ send_raised
    /\ attempts = 2
    /\ outcome = "UpdateFailed"

\* C18: udp_request never makes more than retries attempts, with retries = 0
\* it makes none and returns no data, and once its loop is entered it
\* returns (unless an attempt itself does not return).
UdpRequestReturns ==
    /\ [](attempts <= retries)
    /\ []((retries = 0 /\ pc = "returned")
            => (attempts = 0 /\ sleeps = 0 /\ udp_ret = <<>>))
    /\ (pc = "loop") ~> (pc = "returned" \/ send_raised)

\* C18 witness: udp_request returned for retries = 0
ZeroRetriesWitness ==
    /\ retries = 0
    /\ pc = "returned"
    /\ attempts = 0
    /\ udp_ret = <<>>

====
